---- MODULE Spec2Model ----
(***************************************************************************)
(* A model of qb.py: the career passing-stats scraper.                     *)
(*                                                                         *)
(* Strings the program computes on (player names, slugs, column headers,   *)
(* cells) are sequences of one-character strings, so that strip, lower    *)
(* and the regular-expression substitutions are computed character by      *)
(* character as the code computes them.                                    *)
(*                                                                         *)
(* The program is sequential.  Its observable steps are the blocking       *)
(* calls: requests.get, time.sleep, and the bookkeeping of batch_generate  *)
(* between two calls of fetch_passing_table.                               *)
(***************************************************************************)
EXTENDS Integers, Sequences, FiniteSets, TLC

VARIABLES
    players,        \* players_df[name_col] as read from the input CSV
    unique_names,   \* unique_names (qb.py:116)
    idx,            \* position of the for loop of qb.py:119 in unique_names
    pc,             \* where the program is
    player_name,    \* argument of the running fetch_passing_table call
    max_retries,    \* argument of the running fetch_passing_table call
    candidates,     \* candidates (qb.py:42-46)
    ci,             \* position of the loop of qb.py:48 in candidates
    attempt,        \* attempt (qb.py:50)
    raw,            \* the table fetch_passing_table returned
    err,            \* the exception in flight, "" when none
    stats_list,     \* stats_list (qb.py:118)
    warnings,       \* names printed by the handler of qb.py:125-126
    final_df,       \* the merged output table (qb.py:136-137)
    reqs,           \* history: the GET requests of this call, as runs [slug, n]
    clog,           \* history: events on the current candidate URL
    last,           \* history: the latest event of the run
    started,        \* history: names fetch_passing_table was called with
    soup            \* the parsed body of the 200 response just handled, if any

vars == <<players, unique_names, idx, pc, player_name, max_retries, candidates,
          ci, attempt, raw, err, stats_list, warnings, final_df,
          reqs, clog, last, started, soup>>

(***************************************************************************)
(* Bounds of the model.                                                    *)
(***************************************************************************)
MaxRoster == 3          \* longest input roster
MaxRetriesBound == 4    \* largest max_retries a direct caller passes
MaxNameLen == 3         \* longest name given to the candidate construction alone
MaxRows == 2            \* most body rows of a table given to extract_career_row

\* max_retries: int = 3
DefaultMaxRetries == 3

(***************************************************************************)
(* Strings.                                                                *)
(***************************************************************************)
Whitespace == {" ", "\t"}
Digits == {"0", "1", "2", "3", "4", "5", "6", "7", "8", "9"}
LowerLetters == {"a", "b", "c", "d", "e", "f", "g", "h", "i", "j", "k", "l", "m",
                 "n", "o", "p", "q", "r", "s", "t", "u", "v", "w", "x", "y", "z"}

\* str.lower on one character (the upper-case letters the model uses)
LowerChar(ch) ==
    CASE ch = "A" -> "a" [] ch = "B" -> "b" [] ch = "C" -> "c" [] ch = "D" -> "d"
      [] ch = "J" -> "j" [] ch = "N" -> "n" [] ch = "R" -> "r"
      [] OTHER -> ch

lower(s) == [i \in 1..Len(s) |-> LowerChar(s[i])]

RECURSIVE lstrip(_)
lstrip(s) == IF s # <<>> /\ Head(s) \in Whitespace THEN lstrip(Tail(s)) ELSE s

RECURSIVE rstrip(_)
rstrip(s) ==
    IF s # <<>> /\ s[Len(s)] \in Whitespace
    THEN rstrip(SubSeq(s, 1, Len(s) - 1))
    ELSE s

\* str.strip()
strip(s) == rstrip(lstrip(s))

\* re.sub(r"[\s_]+", "-", s): every maximal run of whitespace or "_" becomes one "-"
RECURSIVE HyphenateRuns(_)
HyphenateRuns(s) ==
    IF s = <<>> THEN <<>>
    ELSE IF Head(s) \in Whitespace \cup {"_"}
         THEN IF Len(s) > 1 /\ s[2] \in Whitespace \cup {"_"}
              THEN HyphenateRuns(Tail(s))
              ELSE <<"-">> \o HyphenateRuns(Tail(s))
         ELSE <<Head(s)>> \o HyphenateRuns(Tail(s))

\* a variant of KeepSlugChars whose character class lacks the digits
KeepSlugLetters(s) == SelectSeq(s, LAMBDA ch : ch \in LowerLetters \cup {"-"})

\* re.sub(r"[^a-z0-9\-]", "", s)
KeepSlugChars(s) == SelectSeq(s, LAMBDA ch : ch \in LowerLetters \cup Digits \cup {"-"})

slugify(name) == KeepSlugChars(HyphenateRuns(strip(lower(name))))

\* re.search(r"-\d+$", base_slug)
RECURSIVE EndsInDigitsAfterHyphen(_)
EndsInDigitsAfterHyphen(s) ==
    /\ Len(s) >= 2
    /\ s[Len(s)] \in Digits
    /\ \/ s[Len(s) - 1] = "-"
       \/ EndsInDigitsAfterHyphen(SubSeq(s, 1, Len(s) - 1))

\* a variant of Candidates that tries the already-suffixed form last
CandidatesSuffixLast(name) ==
    LET base_slug == slugify(name) IN
    <<base_slug \o <<"-", "1">>, base_slug \o <<"-", "2">>>>
        \o (IF EndsInDigitsAfterHyphen(base_slug) THEN <<base_slug>> ELSE <<>>)

\* candidates of fetch_passing_table
Candidates(name) ==
    LET base_slug == slugify(name) IN
    (IF EndsInDigitsAfterHyphen(base_slug) THEN <<base_slug>> ELSE <<>>)
        \o <<base_slug \o <<"-", "1">>, base_slug \o <<"-", "2">>>>

(***************************************************************************)
(* Tables and pages.                                                       *)
(*                                                                         *)
(* A table is its header row and its body rows, every cell a string.  An   *)
(* optional value (Python's None or a value) is a sequence of length 0 or  *)
(* 1.  A page is what BeautifulSoup can find in it: the live table with id *)
(* "passing_standard", if any, and the div with id "div_passing_standard", *)
(* if any, with the first table inside it once the comment delimiters are  *)
(* removed, if any.                                                        *)
(***************************************************************************)
Season == <<"S", "e", "a", "s", "o", "n">>
year_id == <<"y", "e", "a", "r", "_", "i", "d">>
Career == <<"C", "a", "r", "e", "e", "r">>
Team == <<"T", "e", "a", "m">>
Conf == <<"C", "o", "n", "f">>
Class == <<"C", "l", "a", "s", "s">>
Pos == <<"P", "o", "s">>
Awards == <<"A", "w", "a", "r", "d", "s">>
Yds == <<"Y", "d", "s">>
TDStar == <<"T", "D", "*">>
Y2020 == <<"2", "0", "2", "0">>
Clemson == <<"C", "l", "e", "m">>
N10 == <<"1", "0">>
N30 == <<"3", "0">>
N40 == <<"4", "0">>
Dash == <<"-", "-">>
NaN == <<"N", "a", "N">>

\* one Career row, Season variant
TableOne ==
    [columns |-> <<Season, Team, Yds>>,
     rows |-> << <<Y2020, Clemson, N10>>, <<Career, <<>>, N30>> >>]
\* no Career row
TableNoCareer ==
    [columns |-> <<Season, Team, Yds>>,
     rows |-> << <<Y2020, Clemson, N10>> >>]
\* two Career rows
TableTwoCareer ==
    [columns |-> <<Season, Team, Yds>>,
     rows |-> << <<Career, <<>>, N30>>, <<Y2020, Clemson, N10>>, <<Career, <<>>, N40>> >>]
\* neither a Season nor a year_id column
TableNoSeasonCol ==
    [columns |-> <<Team, Yds>>,
     rows |-> << <<Clemson, N10>> >>]
\* year_id variant, a header with a stray symbol, a cell that is no number
TableYearId ==
    [columns |-> <<year_id, Pos, TDStar, Yds>>,
     rows |-> << <<Y2020, <<"Q", "B">>, N10, N10>>, <<Career, <<>>, Dash, N30>> >>]

Tables == {TableOne, TableNoCareer, TableTwoCareer, TableNoSeasonCol, TableYearId}

Opt(S) == {<<>>} \cup {<<x>> : x \in S}

Pages == [live : Opt(Tables), div : Opt(Opt(Tables))]

\* a variant of LocateTable that never looks into the div
LocateTableLiveOnly(page) == page.live

\* a variant of LocateTable that looks into the div first
LocateTableDivFirst(page) ==
    IF page.div # <<>> /\ page.div[1] # <<>> THEN page.div[1] ELSE page.live

\* qb.py:53-66: the live table, else the first table of the uncommented div
LocateTable(page) ==
    LET table == page.live IN
    IF table = <<>>
    THEN IF page.div # <<>> THEN page.div[1] ELSE <<>>
    ELSE table

(***************************************************************************)
(* extract_career_row.                                                     *)
(***************************************************************************)
BadHeaderChars == {"â", "€", " ", "*", "#"}

\* re.sub(r"[â€ *#]", "", col).strip()
CleanHeader(col) == strip(SelectSeq(col, LAMBDA ch : ch \notin BadHeaderChars))

Contains(seq, x) == \E i \in 1..Len(seq) : seq[i] = x
IndexOf(seq, x) == CHOOSE i \in 1..Len(seq) : seq[i] = x /\ \A j \in 1..(i - 1) : seq[j] # x

\* the positions 1..n in order (the index of a frame axis)
Indices(n) == [i \in 1..n |-> i]

\* a variant of to_numeric that leaves a text it cannot convert (errors='ignore')
to_numeric_ignore(cell) == cell

\* pd.to_numeric(cell, errors='coerce') on one cell: an unsigned decimal numeral
\* stays, every other text becomes NaN
to_numeric(cell) ==
    IF cell # <<>> /\ \A i \in 1..Len(cell) : cell[i] \in Digits THEN cell ELSE NaN

\* the rows df[df[season_col] == 'Career'] keeps
CareerRows(df, k) == SelectSeq(Indices(Len(df.rows)), LAMBDA r : df.rows[r][k] = Career)

extract_career_row(df) ==
    LET columns == [i \in 1..Len(df.columns) |-> CleanHeader(df.columns[i])]
        season_col == IF Contains(columns, Season) THEN Season ELSE year_id
    IN  IF ~Contains(columns, season_col)
        THEN [ok |-> FALSE, error |-> "KeyError", columns |-> <<>>, rows |-> <<>>]
        ELSE
        LET k == IndexOf(columns, season_col)
            career == CareerRows(df, k)
            drop_cols == {season_col, Team, Conf, Class, Pos, Awards}
            kept == SelectSeq(Indices(Len(columns)), LAMBDA c : columns[c] \notin drop_cols)
        IN  IF career = <<>>
            THEN [ok |-> FALSE, error |-> "ValueError: Career row not found",
                  columns |-> <<>>, rows |-> <<>>]
            ELSE [ok |-> TRUE, error |-> "",
                  columns |-> [c \in 1..Len(kept) |-> columns[kept[c]]],
                  rows |-> [r \in 1..Len(career) |->
                              [c \in 1..Len(kept) |->
                                  to_numeric(df.rows[career[r]][kept[c]])]]]

(***************************************************************************)
(* Inputs of the model.                                                    *)
(***************************************************************************)
\* name cells of the input CSV: "A", "A " (the same name once stripped),
\* "B-2" (a name whose slug already ends in -<digits>), "c d"
RawNames == { <<"A">>, <<"A", " ">>, <<"B", "-", "2">>, <<"c", " ", "d">> }

\* names a direct caller of fetch_passing_table passes: also "d_10" (an
\* underscore before digits) and "R. J" (a character slugify removes)
FetchNames == RawNames \cup { <<"d", "_", "1", "0">>, <<"R", ".", " ", "J">> }

Rosters == UNION {[1..n -> RawNames] : n \in 0..MaxRoster}

\* resp.status_code; 0 stands for requests.get raising instead of returning
Statuses == {200, 429, 503, 404, 500}
NoResponse == 0

(***************************************************************************)
(* History.                                                                *)
(***************************************************************************)
\* An event: a GET (arg: the status received, table: whether a table was
\* located in the body), a sleep (arg: its seconds), a record appended to
\* stats_list or a warning printed.  who is the position of the player in
\* unique_names, slug the candidate of the URL.
Ev(kind, who, slug, arg, table) ==
    [kind |-> kind, who |-> who, slug |-> slug, arg |-> arg, table |-> table]
NoEvent == Ev("none", 0, <<>>, 0, FALSE)

\* reqs after one more GET to slug
Requested(log, slug) ==
    IF log # <<>> /\ log[Len(log)].slug = slug
    THEN [log EXCEPT ![Len(log)].n = @ + 1]
    ELSE Append(log, [slug |-> slug, n |-> 1])

CouldNotFetch == "ValueError: Could not fetch passing table"

\* a variant of drop_duplicates that keeps every occurrence
keep_duplicates(seq) == seq

(***************************************************************************)
(* Series.drop_duplicates(): the first occurrence of every value, in order *)
(***************************************************************************)
drop_duplicates(seq) ==
    LET first == SelectSeq(Indices(Len(seq)), LAMBDA i : \A j \in 1..(i - 1) : seq[j] # seq[i])
    IN  [i \in 1..Len(first) |-> seq[first[i]]]

(***************************************************************************)
(* fetch_passing_table                                                     *)
(***************************************************************************)
\* a variant of MoreAttempts whose range has one attempt too many
MoreAttemptsOffByOne(n, mr) == n <= mr

\* qb.py:50: whether range(1, mr + 1) has an attempt after attempt n
MoreAttempts(n, mr) == n < mr

\* a variant of EnterFetch that requests the first candidate whatever mr is
EnterFetchAlwaysRequests(name, mr) ==
    /\ player_name' = name
    /\ max_retries' = mr
    /\ candidates' = Candidates(name)
    /\ ci' = 1
    /\ attempt' = 1
    /\ raw' = <<>>
    /\ reqs' = <<>>
    /\ clog' = <<>>
    /\ started' = Append(started, name)
    /\ soup' = <<>>
    /\ pc' = "get"
    /\ err' = ""

\* qb.py:41-50: entry of fetch_passing_table(name, mr), up to the first request.
\* With mr < 1 every range(1, mr + 1) is empty and line 73 raises at once.
EnterFetch(name, mr) ==
    /\ player_name' = name
    /\ max_retries' = mr
    /\ candidates' = Candidates(name)
    /\ ci' = 1
    /\ attempt' = 1
    /\ raw' = <<>>
    /\ reqs' = <<>>
    /\ clog' = <<>>
    /\ started' = Append(started, name)
    /\ soup' = <<>>
    /\ IF MoreAttempts(0, mr)
       THEN pc' = "get" /\ err' = ""
       ELSE pc' = "raised" /\ err' = CouldNotFetch

\* a variant of LeaveCandidate in which the next candidate goes on with the
\* attempt number of the one before
LeaveCandidateKeepsAttempt(log) ==
    IF ci < Len(candidates)
    THEN /\ ci' = ci + 1
         /\ attempt' = attempt
         /\ clog' = <<>>
         /\ pc' = "get"
         /\ err' = err
    ELSE /\ pc' = "raised"
         /\ err' = CouldNotFetch
         /\ clog' = log
         /\ UNCHANGED <<ci, attempt>>

\* the inner loop for candidates[ci] is over (break, or range exhausted):
\* qb.py:48 moves to the next candidate, or qb.py:73 raises
LeaveCandidate(log) ==
    IF ci < Len(candidates)
    THEN /\ ci' = ci + 1
         /\ attempt' = 1
         /\ clog' = <<>>
         /\ pc' = "get"
         /\ err' = err
    ELSE /\ pc' = "raised"
         /\ err' = CouldNotFetch
         /\ clog' = log
         /\ UNCHANGED <<ci, attempt>>

\* a variant of Retryable that retries every status but 200
RetryableAnyError(status) == status # 200

\* qb.py:68: elif resp.status_code in (429, 503)
Retryable(status) == status \in {429, 503}

\* qb.py:51-72: one requests.get and what the loop body does with the response
Get ==
    /\ pc = "get"
    /\ reqs' = Requested(reqs, candidates[ci])
    /\ \E status \in Statuses \cup {NoResponse} :
         IF status = NoResponse
         THEN \* requests.get raised: the exception leaves fetch_passing_table
              /\ last' = Ev("get", idx, candidates[ci], status, FALSE)
              /\ clog' = Append(clog, last')
              /\ pc' = "raised"
              /\ err' = "ConnectionError"
              /\ soup' = <<>>
              /\ UNCHANGED <<ci, attempt, raw>>
         ELSE IF status = 200
         THEN \E body \in Pages :
                LET table == LocateTable(body) IN
                /\ soup' = <<body>>
                /\ last' = Ev("get", idx, candidates[ci], status, table # <<>>)
                /\ IF table # <<>>
                   THEN /\ raw' = table
                        /\ pc' = "returned"
                        /\ clog' = Append(clog, last')
                        /\ UNCHANGED <<ci, attempt, err>>
                   ELSE /\ LeaveCandidate(Append(clog, last'))
                        /\ UNCHANGED raw
         ELSE /\ last' = Ev("get", idx, candidates[ci], status, FALSE)
              /\ soup' = <<>>
              /\ IF Retryable(status)
                 THEN /\ pc' = "sleep"
                      /\ clog' = Append(clog, last')
                      /\ UNCHANGED <<ci, attempt, raw, err>>
                 ELSE /\ LeaveCandidate(Append(clog, last'))
                      /\ UNCHANGED raw
    /\ UNCHANGED <<players, unique_names, idx, player_name, max_retries, candidates,
                   stats_list, warnings, final_df, started>>

\* a variant of SleepSeconds that does not grow with the attempt
SleepSecondsFlat(n) == 2

\* qb.py:69: 2 * attempt
SleepSeconds(n) == 2 * n

\* qb.py:69-70: time.sleep(2 * attempt); continue
Sleep ==
    /\ pc = "sleep"
    /\ LET e == Ev("sleep", idx, candidates[ci], SleepSeconds(attempt), FALSE)
           log == Append(clog, e)
       IN  /\ last' = e
           /\ IF MoreAttempts(attempt, max_retries)
              THEN /\ attempt' = attempt + 1
                   /\ pc' = "get"
                   /\ clog' = log
                   /\ UNCHANGED <<ci, err>>
              ELSE LeaveCandidate(log)
    /\ soup' = <<>>
    /\ UNCHANGED <<players, unique_names, idx, player_name, max_retries, candidates,
                   raw, stats_list, warnings, final_df, reqs, started>>

(***************************************************************************)
(* batch_generate                                                          *)
(***************************************************************************)
\* qb.py:115-118
Load ==
    /\ pc = "load"
    /\ players' = [i \in 1..Len(players) |-> strip(players[i])]
    /\ unique_names' = drop_duplicates(players')
    /\ stats_list' = <<>>
    /\ pc' = "loop"
    /\ UNCHANGED <<idx, player_name, max_retries, candidates, ci, attempt, raw, err,
                   warnings, final_df, reqs, clog, last, started, soup>>

\* qb.py:119-121: the next name, and the call of fetch_passing_table(name)
NextName ==
    /\ pc = "loop"
    /\ idx < Len(unique_names)
    /\ idx' = idx + 1
    /\ EnterFetch(unique_names[idx + 1], DefaultMaxRetries)
    /\ UNCHANGED <<players, unique_names, stats_list, warnings, final_df, last>>

\* a variant of Extract that goes on to the next candidate after a success
ExtractKeepsTrying ==
    /\ pc = "returned"
    /\ LET career == extract_career_row(raw[1]) IN
       IF career.ok
       THEN /\ stats_list' = Append(stats_list,
                                    [Player |-> player_name,
                                     columns |-> career.columns,
                                     rows |-> career.rows])
            /\ last' = Ev("record", idx, <<>>, Len(career.rows), FALSE)
            /\ IF ci < Len(candidates)
               THEN ci' = ci + 1 /\ attempt' = 1 /\ clog' = <<>> /\ pc' = "get"
               ELSE pc' = "loop" /\ UNCHANGED <<ci, attempt, clog>>
            /\ UNCHANGED err
       ELSE /\ err' = career.error
            /\ pc' = "raised"
            /\ UNCHANGED <<stats_list, last, ci, attempt, clog>>
    /\ soup' = <<>>
    /\ UNCHANGED <<players, unique_names, idx, player_name, max_retries, candidates,
                   raw, warnings, final_df, reqs, started>>

\* qb.py:122-124
Extract ==
    /\ pc = "returned"
    /\ LET career == extract_career_row(raw[1]) IN
       IF career.ok
       THEN /\ stats_list' = Append(stats_list,
                                    [Player |-> player_name,
                                     columns |-> career.columns,
                                     rows |-> career.rows])
            /\ last' = Ev("record", idx, <<>>, Len(career.rows), FALSE)
            /\ pc' = "loop"
            /\ UNCHANGED err
       ELSE /\ err' = career.error
            /\ pc' = "raised"
            /\ UNCHANGED <<stats_list, last>>
    /\ soup' = <<>>
    /\ UNCHANGED <<players, unique_names, idx, player_name, max_retries, candidates,
                   ci, attempt, raw, warnings, final_df, reqs, clog, started>>

\* a variant of Except that ends the run at the first failure
ExceptAborts ==
    /\ pc = "raised"
    /\ warnings' = Append(warnings, player_name)
    /\ last' = Ev("warn", idx, <<>>, 0, FALSE)
    /\ err' = ""
    /\ pc' = "exit1"
    /\ soup' = <<>>
    /\ UNCHANGED <<players, unique_names, idx, player_name, max_retries, candidates,
                   ci, attempt, raw, stats_list, final_df, reqs, clog, started>>

\* qb.py:125-126
Except ==
    /\ pc = "raised"
    /\ warnings' = Append(warnings, player_name)
    /\ last' = Ev("warn", idx, <<>>, 0, FALSE)
    /\ err' = ""
    /\ pc' = "loop"
    /\ soup' = <<>>
    /\ UNCHANGED <<players, unique_names, idx, player_name, max_retries, candidates,
                   ci, attempt, raw, stats_list, final_df, reqs, clog, started>>

\* qb.py:132-137: the rows of labels_df.join(stats_df.set_index('Player'), how='left')
JoinRows(names, frames) ==
    LET RowsOf(name) ==
            LET hit == SelectSeq(frames, LAMBDA f : f.Player = name)
                FrameRows(f) == [r \in 1..Len(f.rows) |->
                                   [Player |-> name, columns |-> f.columns, cells |-> f.rows[r]]]
                RECURSIVE Cat(_)
                Cat(fs) == IF fs = <<>> THEN <<>> ELSE FrameRows(Head(fs)) \o Cat(Tail(fs))
            IN  IF hit = <<>>
                THEN << [Player |-> name, columns |-> <<>>, cells |-> <<>>] >>
                ELSE Cat(hit)
        RECURSIVE All(_)
        All(ns) == IF ns = <<>> THEN <<>> ELSE RowsOf(Head(ns)) \o All(Tail(ns))
    IN  All(names)

NoDataFetched == "No data fetched."
OutputError == "Error: OSError"

\* a variant of Finish that also fails the run when a player failed
FinishFailsOnWarning ==
    /\ pc = "loop"
    /\ idx = Len(unique_names)
    /\ IF stats_list = <<>> \/ warnings # <<>>
       THEN /\ pc' = "exit1"
            /\ err' = NoDataFetched
            /\ UNCHANGED final_df
       ELSE /\ final_df' = JoinRows(unique_names, stats_list)
            /\ \E written \in BOOLEAN :
                  IF written
                  THEN pc' = "done" /\ UNCHANGED err
                  ELSE pc' = "exit1" /\ err' = OutputError
    /\ UNCHANGED <<players, unique_names, idx, player_name, max_retries, candidates,
                   ci, attempt, raw, stats_list, warnings, reqs, clog, last, started,
                   soup>>

\* qb.py:128-144, and the handler of main (qb.py:154-158): with no record
\* the run exits with status 1; else the table is merged and written, and
\* when writing it raises (to_csv or print), main prints the error and exits
\* with status 1
Finish ==
    /\ pc = "loop"
    /\ idx = Len(unique_names)
    /\ IF stats_list = <<>>
       THEN /\ pc' = "exit1"
            /\ err' = NoDataFetched
            /\ UNCHANGED final_df
       ELSE /\ final_df' = JoinRows(unique_names, stats_list)
            /\ \E written \in BOOLEAN :
                  IF written
                  THEN pc' = "done" /\ UNCHANGED err
                  ELSE pc' = "exit1" /\ err' = OutputError
    /\ UNCHANGED <<players, unique_names, idx, player_name, max_retries, candidates,
                   ci, attempt, raw, stats_list, warnings, reqs, clog, last, started,
                   soup>>

(***************************************************************************)
(* Specifications.                                                         *)
(***************************************************************************)
\* batch_generate on an input roster
Init ==
    /\ players \in Rosters
    /\ unique_names = <<>>
    /\ idx = 0
    /\ pc = "load"
    /\ player_name = <<>>
    /\ max_retries = DefaultMaxRetries
    /\ candidates = <<>>
    /\ ci = 1
    /\ attempt = 1
    /\ raw = <<>>
    /\ err = ""
    /\ stats_list = <<>>
    /\ warnings = <<>>
    /\ final_df = <<>>
    /\ reqs = <<>>
    /\ clog = <<>>
    /\ last = NoEvent
    /\ started = <<>>
    /\ soup = <<>>

Next == Load \/ NextName \/ Get \/ Sleep \/ Extract \/ Except \/ Finish

Spec == Init /\ [][Next]_vars

\* fetch_passing_table called directly, with any max_retries
InitFetch ==
    /\ players = <<>>
    /\ unique_names = <<>>
    /\ idx = 0
    /\ pc = "idle"
    /\ player_name = <<>>
    /\ max_retries = DefaultMaxRetries
    /\ candidates = <<>>
    /\ ci = 1
    /\ attempt = 1
    /\ raw = <<>>
    /\ err = ""
    /\ stats_list = <<>>
    /\ warnings = <<>>
    /\ final_df = <<>>
    /\ reqs = <<>>
    /\ clog = <<>>
    /\ last = NoEvent
    /\ started = <<>>
    /\ soup = <<>>

FetchCall ==
    /\ pc = "idle"
    /\ \E name \in FetchNames, mr \in 0..MaxRetriesBound : EnterFetch(name, mr)
    /\ UNCHANGED <<players, unique_names, idx, stats_list, warnings, final_df, last>>

NextFetch == FetchCall \/ Get \/ Sleep

FetchSpec == InitFetch /\ [][NextFetch]_vars

\* qb.py:121-122: fetch_passing_table(name) and then extract_career_row(raw)
NextLookup == FetchCall \/ Get \/ Sleep \/ Extract

LookupSpec == InitFetch /\ [][NextLookup]_vars

\* the call runs on: the interpreter takes the next step of the function
\* whenever there is one
FetchLive == FetchSpec /\ WF_vars(NextFetch)

\* the candidate construction of fetch_passing_table on any short name over
\* letters, digits, separators, punctuation and a letter outside a-z
NameChars == {"A", "b", "1", " ", "_", "-", "!", "é"}
SlugNames == UNION {[1..n -> NameChars] : n \in 0..MaxNameLen}

\* qb.py:41-46 for a new name
ResolveCall ==
    /\ pc = "idle"
    /\ \E name \in SlugNames : EnterFetch(name, DefaultMaxRetries)
    /\ UNCHANGED <<players, unique_names, idx, stats_list, warnings, final_df, last>>

\* qb.py:41-46 once more for the same name
ResolveAgain ==
    /\ pc = "get"
    /\ Len(started) < 2
    /\ EnterFetch(player_name, max_retries)
    /\ UNCHANGED <<players, unique_names, idx, stats_list, warnings, final_df, last>>

NextSlug == ResolveCall \/ ResolveAgain

SlugSpec == InitFetch /\ [][NextSlug]_vars

\* extract_career_row on any table: headers of both season-column variants,
\* with stray symbols, or with no season column, and up to MaxRows rows
ExtractHeaders ==
    { <<Season, Team, Yds>>,
      <<year_id, Pos, TDStar>>,
      <<Team, Pos, Yds>>,
      << <<" ", "S", "e", "a", "s", "o", "n", "*">>, Awards, <<"Y", "d", "s", "#">> >> }
ExtractRowSet ==
    { <<season, Clemson, stat>> : season \in {Career, Y2020}, stat \in {N30, N40, Dash} }
ExtractTables ==
    { [columns |-> h, rows |-> r] :
        h \in ExtractHeaders, r \in UNION {[1..n -> ExtractRowSet] : n \in 0..MaxRows} }

\* qb.py:121: raw is bound to a table
GotTable ==
    /\ pc = "idle"
    /\ \E df \in ExtractTables : raw' = <<df>>
    /\ pc' = "returned"
    /\ UNCHANGED <<players, unique_names, idx, player_name, max_retries, candidates,
                   ci, attempt, err, stats_list, warnings, final_df, reqs, clog, last,
                   started, soup>>

NextExtract == GotTable \/ Extract

ExtractSpec == InitFetch /\ [][NextExtract]_vars

(***************************************************************************)
(* Properties of fetch_passing_table.                                      *)
(***************************************************************************)
LastOf(seq) == seq[Len(seq)]

\* C1: fetch_passing_table sends at most max_retries GET requests to any one
\* candidate URL: every run of requests to one slug has at most max_retries
\* requests, and no slug has two runs.
C1_RequestsPerUrlBounded ==
    /\ \A i \in 1..Len(reqs) : reqs[i].n <= max_retries
    /\ \A i, j \in 1..Len(reqs) : i # j => reqs[i].slug # reqs[j].slug

\* a candidate was given up after exactly max_retries = 3 requests
C1_Witness ==
    /\ max_retries = 3
    /\ Len(reqs) >= 2
    /\ reqs[1].n = 3

\* C2: when the responses of one candidate URL are 429 or 503 on attempts
\* 1..k-1 and 200 with a table on attempt k, the call returns on attempt
\* k <= max_retries, exactly one sleep lies between two consecutive attempts,
\* and the i-th sleep lasts 2 * i seconds (strictly increasing).
C2_RetryThenSuccess ==
    (clog # <<>> /\ LastOf(clog).kind = "get" /\ LastOf(clog).arg = 200 /\ LastOf(clog).table)
    => LET k == (Len(clog) + 1) \div 2 IN
       /\ Len(clog) = 2 * k - 1
       /\ pc = "returned"
       /\ raw # <<>>
       /\ attempt = k
       /\ k <= max_retries
       /\ \A i \in 1..Len(clog) : clog[i].slug = candidates[ci]
       /\ \A i \in 1..(k - 1) :
            /\ clog[2 * i - 1].kind = "get"
            /\ clog[2 * i - 1].arg \in {429, 503}
            /\ clog[2 * i].kind = "sleep"
            /\ clog[2 * i].arg = 2 * i
       /\ \A i, j \in 1..(k - 1) : i < j => clog[2 * i].arg < clog[2 * j].arg

\* 503, 503, 200: returned on the third attempt after sleeps of 2 and 4 seconds
C2_Witness ==
    /\ pc = "returned"
    /\ attempt = 3
    /\ Len(clog) = 5
    /\ clog[1].arg = 503 /\ clog[3].arg = 503 /\ clog[5].arg = 200
    /\ clog[2].kind = "sleep" /\ clog[2].arg = 2
    /\ clog[4].kind = "sleep" /\ clog[4].arg = 4

\* C3: every sleep is followed by another GET to the same candidate URL:
\* once a sleep is the latest event, the program is about to request the URL
\* it slept for.
C3_SleepThenSameUrl ==
    last.kind = "sleep" => (pc = "get" /\ candidates[ci] = last.slug)

\* C4: a status other than 200, 429 and 503 abandons the candidate at once:
\* no sleep, the next request (if any) goes to the next candidate, and a URL
\* that was abandoned is never requested again.
C4_HardStatusAbandons ==
    /\ (last.kind = "get" /\ last.arg \notin {200, 429, 503, NoResponse})
       => /\ pc # "sleep"
          /\ \/ /\ pc = "get"
                /\ ci > 1
                /\ candidates[ci - 1] = last.slug
                /\ attempt = 1
                /\ LastOf(reqs).slug = last.slug
             \/ /\ pc = "raised"
                /\ err = CouldNotFetch
                /\ ci = Len(candidates)
                /\ candidates[ci] = last.slug
    /\ pc = "get" =>
          \A i \in 1..Len(reqs) :
             reqs[i].slug = candidates[ci] => (i = Len(reqs) /\ clog # <<>>)

\* a 404 on the first candidate, the second candidate about to be requested
C4_Witness ==
    /\ last.kind = "get"
    /\ last.arg = 404
    /\ pc = "get"
    /\ ci = 2

\* the candidate identifiers of the names of the model, in priority order
C5_Expected(name) ==
    CASE strip(name) = <<"A">> -> << <<"a", "-", "1">>, <<"a", "-", "2">> >>
      [] strip(name) = <<"B", "-", "2">> ->
            << <<"b", "-", "2">>, <<"b", "-", "2", "-", "1">>, <<"b", "-", "2", "-", "2">> >>
      [] strip(name) = <<"c", " ", "d">> ->
            << <<"c", "-", "d", "-", "1">>, <<"c", "-", "d", "-", "2">> >>
      [] strip(name) = <<"d", "_", "1", "0">> ->
            << <<"d", "-", "1", "0">>, <<"d", "-", "1", "0", "-", "1">>,
               <<"d", "-", "1", "0", "-", "2">> >>
      [] strip(name) = <<"R", ".", " ", "J">> ->
            << <<"r", "-", "j", "-", "1">>, <<"r", "-", "j", "-", "2">> >>
      [] OTHER -> <<>>

\* C5: the URLs requested for a player are, in order and without return, a
\* prefix of: the slug itself if it ends in -<digits>, slug-1, slug-2.
C5_CandidateOrder ==
    /\ Len(reqs) <= Len(C5_Expected(player_name))
    /\ \A i \in 1..Len(reqs) : reqs[i].slug = C5_Expected(player_name)[i]

\* all three candidates of "B-2" were requested
C5_Witness ==
    /\ player_name = <<"B", "-", "2">>
    /\ Len(reqs) = 3
    /\ reqs[1].slug = <<"b", "-", "2">>

(***************************************************************************)
(* Properties of batch_generate.                                           *)
(***************************************************************************)
\* the entries of stats_list for a name, and its warnings
RecordsOf(name) == SelectSeq(stats_list, LAMBDA f : f.Player = name)
FailuresOf(name) == SelectSeq(warnings, LAMBDA n : n = name)

\* the distinct whitespace-trimmed names of the roster
DistinctNames == {strip(players[i]) : i \in 1..Len(players)}
FirstRow(name) == CHOOSE i \in 1..Len(players) :
                     /\ strip(players[i]) = name
                     /\ \A j \in 1..(i - 1) : strip(players[j]) # name

\* C6: the first candidate whose page gives a table with a Career row gives
\* one entry of stats_list for the player (a PlayerRecord is one entry of
\* stats_list), and no request is sent for a later candidate: the record is
\* appended with the requests ending at the candidate that answered 200 with
\* a table, and a player with a record is no longer being fetched.
C6_StopAfterSuccess ==
    /\ \A i \in 1..Len(unique_names) :
          /\ Len(RecordsOf(unique_names[i])) <= 1
          /\ Len(RecordsOf(unique_names[i])) = 1
                => (i < idx \/ (i = idx /\ pc \in {"loop", "done", "exit1"}))
    /\ (last.kind = "record" /\ pc \in {"loop", "done", "exit1"})
          => /\ Len(reqs) = ci
             /\ LastOf(reqs).slug = candidates[ci]
             /\ LastOf(clog).kind = "get" /\ LastOf(clog).arg = 200 /\ LastOf(clog).table
             /\ LastOf(stats_list).Player = unique_names[last.who]

\* a record made from the first of three candidates
C6_Witness ==
    /\ last.kind = "record"
    /\ pc = "loop"
    /\ ci = 1
    /\ Len(candidates) = 3
    /\ Len(RecordsOf(player_name)) = 1

\* C7: a player fails only when all of its candidates have been tried: when
\* the exception that makes the player fail is raised (every request having
\* been answered), every candidate has been requested.
C7_FailureOnlyAfterAllCandidates ==
    (pc = "raised" /\ err # "ConnectionError") => Len(reqs) = Len(candidates)

\* C8: a player's failure never aborts the batch: when the run ends, every
\* distinct name was fetched, each has exactly one entry of stats_list or
\* exactly one warning, and stats_list is in the order of the input.
C8_EveryNameSettled ==
    pc \in {"done", "exit1"}
    => /\ {started[i] : i \in 1..Len(started)} = DistinctNames
       /\ \A name \in DistinctNames :
             \/ Len(RecordsOf(name)) = 1 /\ Len(FailuresOf(name)) = 0
             \/ Len(RecordsOf(name)) = 0 /\ Len(FailuresOf(name)) = 1
       /\ \A i \in 1..Len(stats_list) : stats_list[i].Player \in DistinctNames
       /\ \A i, j \in 1..Len(stats_list) :
             i < j => FirstRow(stats_list[i].Player) < FirstRow(stats_list[j].Player)

\* three names, the second failed, the first and the third have their record
C8_Witness ==
    /\ pc = "done"
    /\ Len(unique_names) = 3
    /\ Len(stats_list) = 2
    /\ stats_list[1].Player = unique_names[1]
    /\ stats_list[2].Player = unique_names[3]
    /\ warnings = <<unique_names[2]>>

\* C9: a pause of at least one second lies between the end of one player and
\* the first request of the next: when the first request of a later player is
\* about to be sent, the latest event is a sleep of at least one second.
C9_PauseBetweenPlayers ==
    (pc = "get" /\ reqs = <<>> /\ idx > 1) => (last.kind = "sleep" /\ last.arg >= 1)

\* C10: fetch_passing_table is called at most once for each distinct trimmed
\* name, and only for names of the roster.
C10_FetchOncePerName ==
    /\ \A i, j \in 1..Len(started) : i # j => strip(started[i]) # strip(started[j])
    /\ \A i \in 1..Len(started) : started[i] \in DistinctNames

\* a roster of three rows that name the same player, fetched once
C10_Witness ==
    /\ pc \in {"done", "exit1"}
    /\ Len(players) = 3
    /\ Cardinality(DistinctNames) = 1
    /\ Len(started) = 1

(***************************************************************************)
(* Properties of the output of batch_generate.                             *)
(***************************************************************************)
RowsFor(name) == SelectSeq(final_df, LAMBDA row : row.Player = name)

\* C11: when the batch produces output, the output table has exactly one row
\* per distinct input name: a player with a record carries the fields of the
\* record, a player that failed has a row of missing values.
C11_OneRowPerName ==
    pc = "done"
    => /\ Len(final_df) = Cardinality(DistinctNames)
       /\ \A name \in DistinctNames :
             /\ Len(RowsFor(name)) = 1
             /\ Len(FailuresOf(name)) = 1 => RowsFor(name)[1].cells = <<>>
             /\ Len(RecordsOf(name)) = 1
                   => /\ RowsFor(name)[1].columns = RecordsOf(name)[1].columns
                      /\ RowsFor(name)[1].cells = RecordsOf(name)[1].rows[1]

\* the claim C12 as stated: the run ends with a failure status if and only
\* if no player was resolved to a record
C12_FailsIffNoneResolved ==
    pc \in {"done", "exit1"} => (pc = "exit1" <=> stats_list = <<>>)

\* C12 (amended): the run ends with a failure status when no player was
\* resolved, and otherwise only when writing the merged output raises; a mix
\* of succeeded and failed players ends normally, with the partial results.
C12_FailureStatus ==
    /\ pc = "exit1"
          => \/ stats_list = <<>> /\ err = NoDataFetched
             \/ stats_list # <<>> /\ err = OutputError
    /\ pc = "done" => (stats_list # <<>> /\ final_df # <<>> /\ err = "")

\* a run with a record and a failed player that ended normally
C12_Witness ==
    /\ pc = "done"
    /\ stats_list # <<>>
    /\ warnings # <<>>

(***************************************************************************)
(* Properties of extract_career_row.                                       *)
(***************************************************************************)
\* the position of the season column of a table (Season, else year_id, by
\* cleaned header), 0 when it has neither
SeasonPosition(df) ==
    LET Named(name) == {c \in 1..Len(df.columns) : CleanHeader(df.columns[c]) = name}
        Min(S) == CHOOSE c \in S : \A d \in S : c <= d
    IN  IF Named(Season) # {} THEN Min(Named(Season))
        ELSE IF Named(year_id) # {} THEN Min(Named(year_id))
        ELSE 0

\* the rows of a table whose season cell is "Career"
MatchingRows(df) ==
    IF SeasonPosition(df) = 0 THEN {}
    ELSE {r \in 1..Len(df.rows) : df.rows[r][SeasonPosition(df)] = Career}

IdentifyingColumns == {Season, year_id, Team, Conf, Class, Pos, Awards}
IsNumber(cell) == cell # <<>> /\ \A i \in 1..Len(cell) : cell[i] \in Digits

\* extract_career_row has run on raw[1]
Extracted == raw # <<>> /\ pc \in {"loop", "raised"}

\* C13: with at least one row whose season is "Career", extract_career_row
\* returns exactly one row, the first such row of the table; with none it
\* fails.
C13_FirstCareerRowOnly ==
    Extracted
    => LET df == raw[1]
           first == CHOOSE r \in MatchingRows(df) : \A q \in MatchingRows(df) : r <= q
       IN  IF MatchingRows(df) = {}
           THEN pc = "raised"
           ELSE /\ pc = "loop"
                /\ Len(LastOf(stats_list).rows) = 1
                /\ \A c \in 1..Len(df.columns) :
                      df.rows[first][c] \in {N30, N40}
                         => \E d \in 1..Len(LastOf(stats_list).rows[1]) :
                               LastOf(stats_list).rows[1][d] = df.rows[first][c]

\* C14: a table with no row whose season is "Career", also one with neither
\* a Season nor a year_id column, makes extract_career_row fail with
\* 'Career row not found' and with no other error.
C14_RowNotFoundOnly ==
    (Extracted /\ MatchingRows(raw[1]) = {})
    => (pc = "raised" /\ err = "ValueError: Career row not found")

\* C18: for a table with a Career row the result has none of the identifying
\* columns, every cell of it is a number or the missing value, and a cell
\* that is no number never makes the extraction fail.
C18_NumericOrMissing ==
    (Extracted /\ MatchingRows(raw[1]) # {})
    => /\ pc = "loop"
       /\ LET career == LastOf(stats_list) IN
          /\ \A c \in 1..Len(career.columns) : career.columns[c] \notin IdentifyingColumns
          /\ \A r \in 1..Len(career.rows) :
                /\ Len(career.rows[r]) = Len(career.columns)
                /\ \A c \in 1..Len(career.rows[r]) :
                      IsNumber(career.rows[r][c]) \/ career.rows[r][c] = NaN

\* a Career row with a cell that is no number was extracted, the cell missing
C18_Witness ==
    /\ Extracted
    /\ pc = "loop"
    /\ \E r \in MatchingRows(raw[1]) : raw[1].rows[r][3] = Dash
    /\ \E r \in 1..Len(LastOf(stats_list).rows) : LastOf(stats_list).rows[r][1] = NaN

(***************************************************************************)
(* Properties of the candidate construction.                               *)
(***************************************************************************)
\* the slug a candidate sequence was built from: its last candidate without "-2"
SlugOf(cands) == SubSeq(cands[Len(cands)], 1, Len(cands[Len(cands)]) - 2)

\* the letters a-z and digits of a string, in order
AlnumOf(s) == SelectSeq(s, LAMBDA ch : ch \in LowerLetters \cup Digits)

\* C16 as stated: the candidate sequence is never empty and has no empty
\* candidate, and the slug contains the lowercase alphanumeric core of the
\* name and so is never empty.
C16_SlugNeverEmpty ==
    pc = "get"
    => /\ candidates # <<>>
       /\ \A i \in 1..Len(candidates) : candidates[i] # <<>>
       /\ AlnumOf(SlugOf(candidates)) = AlnumOf(lower(player_name))
       /\ SlugOf(candidates) # <<>>

\* C16: the candidate sequence is never empty and has no empty candidate;
\* the letters a-z and digits of the slug are those of the lower-cased name,
\* in order, so the slug is non-empty whenever the name has such a character;
\* resolving the same name again gives the same sequence.
C16_CandidatesWellFormed ==
    [][ pc' = "get"
        => /\ candidates' # <<>>
           /\ \A i \in 1..Len(candidates') : candidates'[i] # <<>>
           /\ AlnumOf(SlugOf(candidates')) = AlnumOf(lower(player_name'))
           /\ AlnumOf(lower(player_name')) # <<>> => SlugOf(candidates') # <<>>
           /\ pc = "get" => candidates' = candidates ]_vars

\* a name with no letter a-z or digit was resolved twice: the slug is empty
\* and the candidates are "-1" and "-2"
C16_Witness ==
    /\ pc = "get"
    /\ Len(started) = 2
    /\ player_name # <<>>
    /\ SlugOf(candidates) = <<>>
    /\ candidates = << <<"-", "1">>, <<"-", "2">> >>

(***************************************************************************)
(* Properties of the retry budget.                                         *)
(***************************************************************************)
\* the number of requests of a request log
RECURSIVE TotalRequests(_)
TotalRequests(log) == IF log = <<>> THEN 0 ELSE Head(log).n + TotalRequests(Tail(log))

\* the latest request got no response (requests.get raised)
RequestRaised == last.kind = "get" /\ last.arg = NoResponse

\* C19: fetch_passing_table issues at most Len(candidates) * max_retries
\* requests, ends by returning a table or, when every request returned, by
\* raising 'Could not fetch passing table', and it does end; with
\* max_retries = 0 it issues no request and raises that error.
C19_TerminatesWithinBudget ==
    /\ [](/\ TotalRequests(reqs) <= Len(candidates) * max_retries
          /\ (pc = "raised" /\ ~RequestRaised) => err = CouldNotFetch
          /\ pc = "returned" => raw # <<>>
          /\ (started # <<>> /\ max_retries = 0)
                => (reqs = <<>> /\ pc = "raised" /\ err = CouldNotFetch))
    /\ <>(pc \in {"returned", "raised"})

\* the whole budget was spent: every candidate was requested max_retries
\* times and the call raised
C19_Witness ==
    /\ pc = "raised"
    /\ err = CouldNotFetch
    /\ max_retries >= 2
    /\ TotalRequests(reqs) = Len(candidates) * max_retries

\* C20: a candidate that answered 429 or 503 on each of its max_retries
\* attempts is abandoned; the next candidate starts at attempt 1, its k-th
\* sleep is 2 * k seconds (the first one 2), and the call raises only on the
\* last candidate.
C20_BudgetPerCandidate ==
    /\ (last.kind = "sleep" /\ reqs # <<>> /\ LastOf(reqs).slug = last.slug
            /\ LastOf(reqs).n = max_retries)
          => \E k \in 1..Len(candidates) :
                /\ candidates[k] = last.slug
                /\ IF k < Len(candidates)
                   THEN pc = "get" /\ ci = k + 1 /\ attempt = 1 /\ clog = <<>>
                   ELSE pc = "raised" /\ err = CouldNotFetch
    /\ \A i \in 1..Len(clog) :
          /\ clog[i].slug = candidates[ci]
          /\ clog[i].kind = "sleep" => (i % 2 = 0 /\ clog[i].arg = i)
    /\ pc = "get" => attempt <= max_retries /\ Len(clog) = 2 * (attempt - 1)
    /\ (pc = "raised" /\ err = CouldNotFetch /\ max_retries >= 1)
          => (ci = Len(candidates) /\ reqs # <<>> /\ LastOf(reqs).slug = candidates[ci])

\* two candidates in a row spent max_retries attempts each, and the call
\* raised after the last one
C20_Witness ==
    /\ pc = "raised"
    /\ err = CouldNotFetch
    /\ last.kind = "sleep"
    /\ max_retries >= 2
    /\ Len(reqs) >= 2
    /\ \A i \in 1..Len(reqs) : reqs[i].n = max_retries

(***************************************************************************)
(* Properties of the table location.                                       *)
(***************************************************************************)
\* the page with table t live and no div, and the one with t only inside a
\* comment of the div
LivePage(t) == [live |-> <<t>>, div |-> <<>>]
CommentPage(t) == [live |-> <<>>, div |-> << <<t>> >>]

C17_TwoPassSearch ==
    soup # <<>>
    => LET page == soup[1] IN
       /\ last.kind = "get" /\ last.arg = 200
       /\ LastOf(reqs).slug = last.slug
       /\ \A i, j \in 1..Len(reqs) : reqs[i].slug = reqs[j].slug => i = j
       /\ IF page.live # <<>>
          THEN pc = "returned" /\ raw = page.live /\ last.table
          ELSE IF page.div # <<>> /\ page.div[1] # <<>>
          THEN pc = "returned" /\ raw = page.div[1] /\ last.table
          ELSE /\ ~last.table
               /\ raw = <<>>
               /\ \E k \in 1..Len(candidates) :
                     /\ candidates[k] = last.slug
                     /\ IF k < Len(candidates)
                        THEN pc = "get" /\ ci = k + 1 /\ attempt = 1 /\ clog = <<>>
                        ELSE pc = "raised" /\ err = CouldNotFetch

\* a page with a live table and another table in the div was answered, and
\* the live one was returned
C17_Witness ==
    /\ soup # <<>>
    /\ soup[1].live # <<>>
    /\ soup[1].div # <<>>
    /\ soup[1].div[1] # <<>>
    /\ soup[1].div[1] # soup[1].live
    /\ pc = "returned"
    /\ raw = soup[1].live

====
